---- MODULE Spec2Model ----
(***************************************************************************)
(* chain-of-trust: the delegation walk of src/main.rs, the path iterator   *)
(* of src/zone_iterator.rs and the zone resolution / trust verification    *)
(* of src/querier.rs.                                                      *)
(*                                                                         *)
(* A Name is the sequence of its labels, most specific first, as in        *)
(* trust-dns: "child.example." is <<"child", "example">>, the root is <<>>. *)
(* Names with a leading wildcard label are not modelled.                   *)
(* An Option is a sequence of length at most 1: None is <<>>, Some(x) is   *)
(* <<x>>.                                                                  *)
(***************************************************************************)
EXTENDS Integers, Sequences, FiniteSets, TLC

VARIABLES
    pc,         \* position of main, or of the function harness
    args,       \* main.rs: Args (root_address, origin, ip_family_mode, zone)
    it,         \* the ZoneIterator of the for loop
    last_zone,  \* main.rs: last_zone
    parent,     \* the pair bound by the for loop
    child,
    parent_zone,\* main.rs: parent_zone, <<>> outside the hop's then-branch
    result,     \* what query_trust returned at this hop, <<>> if not called
    responses,  \* the DS and DNSKEY responses of this hop's trust check, once
                \* it has returned a verdict, <<>> before
    out,        \* the lines written so far, stdout and stderr interleaved
    queries,    \* the DNS queries issued so far, in order
    yielded,    \* the pairs the iterator has yielded so far
    fn,         \* function harness: the function under test ("main": none)
    arg,        \* function harness: its input
    ret         \* function harness: what it has returned

vars == <<pc, args, it, last_zone, parent, child, parent_zone, result,
          responses, out, queries, yielded, fn, arg, ret>>

walk_vars == <<args, it, last_zone, parent, child, parent_zone, result,
               responses, out, queries, yielded>>

-----------------------------------------------------------------------------
(* Bounds and universes                                                    *)

MaxLabels == 3      \* labels of a target or origin name
MaxNs == 2          \* nameservers of a list handed to random_address
MaxAddrs == 2       \* addresses of one nameserver
MaxAnswers == 2     \* records of the answer section of an NS response
MaxAuthority == 1   \* records of its authority section
MaxGlue == 2        \* records of its additional section
MaxRecords == 2     \* records of a DS or DNSKEY answer
MaxNone == 2        \* calls of next() made after the iterator is exhausted

Labels == {"a", "b"}

SeqsUpTo(S, n) == UNION {[1..k -> S] : k \in 0..n}

Names == SeqsUpTo(Labels, MaxLabels)

None == <<>>
Some(x) == <<x>>

Modes == {"Any", "Ipv4", "Ipv6"}

Ipv4Addrs == {"192.0.2.1", "192.0.2.53"}
Ipv6Addrs == {"2001:db8::1"}
Addrs == Ipv4Addrs \cup Ipv6Addrs

is_ipv4(addr) == addr \in Ipv4Addrs
is_ipv6(addr) == addr \in Ipv6Addrs

NsNames == {<<"ns1", "example">>, <<"ns2", "example">>}

-----------------------------------------------------------------------------
(* trust-dns Name, as used by zone_iterator.rs                             *)

num_labels(name) == Len(name)

\* Name::trim_to: the rightmost n labels; the whole name if it has fewer.
trim_to(name, n) ==
    IF n > Len(name) THEN name
    ELSE SubSeq(name, Len(name) - n + 1, Len(name))

-----------------------------------------------------------------------------
(* zone_iterator.rs                                                        *)

U8 == 256

\* iter starting at the root whatever the origin.
iter_from_root(name, origin) ==
    [target |-> name, current_level |-> 0]

iter(name, origin) ==
    [target |-> name, current_level |-> num_labels(origin) % U8]

\* next() testing current_level > num_labels instead of >=.
ZoneIterator_next_gt(self) ==
    IF self.current_level > num_labels(self.target)
    THEN [self |-> self, item |-> None]
    ELSE LET level == (self.current_level + 1) % U8
         IN  [self |-> [self EXCEPT !.current_level = level],
              item |-> Some(<<trim_to(self.target, level - 1),
                              trim_to(self.target, level)>>)]

\* next() advancing its counter before it tests it.
ZoneIterator_next_incr_first(self) ==
    LET level == (self.current_level + 1) % U8
        advanced == [self EXCEPT !.current_level = level]
    IN  IF level > num_labels(self.target)
        THEN [self |-> advanced, item |-> None]
        ELSE [self |-> advanced,
              item |-> Some(<<trim_to(self.target, level - 1),
                              trim_to(self.target, level)>>)]

\* ZoneIterator::next: the iterator after the call and the Option returned.
ZoneIterator_next(self) ==
    IF self.current_level >= num_labels(self.target)
    THEN [self |-> self, item |-> None]
    ELSE LET level == (self.current_level + 1) % U8
         IN  [self |-> [self EXCEPT !.current_level = level],
              item |-> Some(<<trim_to(self.target, level - 1),
                              trim_to(self.target, level)>>)]

-----------------------------------------------------------------------------
(* querier.rs: nameservers and address selection                           *)

\* struct Nameserver
Nameserver(name, addresses) == [name |-> name, addresses |-> addresses]

\* The inner loop of random_address over the addresses of one nameserver.
RECURSIVE random_address_of(_, _)
random_address_of(addresses, mode) ==
    IF addresses = <<>> THEN None
    ELSE LET addr == Head(addresses)
         IN  IF mode = "Any" THEN Some(addr)
             ELSE IF is_ipv4(addr) /\ mode = "Ipv4" THEN Some(addr)
             ELSE IF is_ipv6(addr) /\ mode = "Ipv6" THEN Some(addr)
             ELSE random_address_of(Tail(addresses), mode)

\* random_address returning None as soon as one nameserver has no match.
random_address_first_ns(nameservers, mode) ==
    IF nameservers = <<>> THEN None
    ELSE random_address_of(Head(nameservers).addresses, mode)

RECURSIVE random_address(_, _)
random_address(nameservers, mode) ==
    IF nameservers = <<>> THEN None
    ELSE LET found == random_address_of(Head(nameservers).addresses, mode)
         IN  IF found # None THEN found
             ELSE random_address(Tail(nameservers), mode)

-----------------------------------------------------------------------------
(* querier.rs: from an NS response to a nameserver list                    *)

\* A record of a response: its owner name, its type and its data, an
\* Option (Record::data). The data of an NS record is the nameserver's name,
\* that of an A or AAAA record an address.
Rec(name, rtype, data) == [name |-> name, rtype |-> rtype, data |-> data]

into_address(record) ==
    IF record.data = None THEN None
    ELSE IF record.rtype = "A" THEN Some(record.data[1])
    ELSE IF record.rtype = "AAAA" THEN Some(record.data[1])
    ELSE None

\* filter(|x| x.name() == ns).filter_map(into_address).collect()
RECURSIVE glue_of(_, _)
glue_of(additionals, ns) ==
    IF additionals = <<>> THEN <<>>
    ELSE LET x == Head(additionals)
             rest == glue_of(Tail(additionals), ns)
         IN  IF x.name = ns THEN into_address(x) \o rest ELSE rest

\* The loop of to_ns over answers().chain(name_servers()).
RECURSIVE to_ns_loop(_, _)
to_ns_loop(records, additionals) ==
    IF records = <<>> THEN <<>>
    ELSE LET record == Head(records)
             rest == to_ns_loop(Tail(records), additionals)
         IN  IF record.rtype = "NS" /\ record.data # None
             THEN LET ns == record.data[1]
                  IN  <<Nameserver(ns, glue_of(additionals, ns))>> \o rest
             ELSE rest

\* to_ns scanning the answer section alone.
to_ns_answers_only(response) ==
    to_ns_loop(response.answers, response.additionals)

to_ns(response) ==
    to_ns_loop(response.answers \o response.name_servers, response.additionals)

\* struct Zone
Zone(name, nameservers) == [name |-> name, nameservers |-> nameservers]

-----------------------------------------------------------------------------
(* querier.rs: the queries. A query either fails in transport, and the     *)
(* unwrap() of its result panics, or returns a response; the response is   *)
(* an input of the operator. Each operator gives what the function returns *)
(* (kind "Ok" or "Err"), or kind "Panic", and the queries it issued.       *)

TransportError == [ok |-> FALSE, answers |-> <<>>, name_servers |-> <<>>,
                   additionals |-> <<>>]
Response(answers, name_servers, additionals) ==
    [ok |-> TRUE, answers |-> answers, name_servers |-> name_servers,
     additionals |-> additionals]

\* A query as issued: type, name, server address, and whether the transport
\* returned a response.
Query(qtype, qname, server, ok) ==
    [qtype |-> qtype, qname |-> qname, server |-> server, ok |-> ok]

NoZone == Zone(<<>>, <<>>)

\* query_zone taking a failed query for a response without records.
query_zone_lenient(name, address, response) ==
    [kind |-> "Ok",
     zone |-> Zone(name, IF response.ok THEN to_ns(response) ELSE <<>>),
     queries |-> <<Query("NS", name, address, response.ok)>>]

query_zone(name, address, response) ==
    IF ~response.ok
    THEN [kind |-> "Panic", zone |-> NoZone,
          queries |-> <<Query("NS", name, address, FALSE)>>]
    ELSE [kind |-> "Ok", zone |-> Zone(name, to_ns(response)),
          queries |-> <<Query("NS", name, address, TRUE)>>]

\* A DS record of an answer: key tag and algorithm. A record of another type
\* in the answer makes the unwrap() of as_ds panic.
DsRec(key_tag, algorithm) ==
    [rtype |-> "DS", key_tag |-> key_tag, algorithm |-> algorithm]
OtherDs == [rtype |-> "CNAME", key_tag |-> 0, algorithm |-> 0]

\* A DNSKEY record: flags, algorithm and public key.
DnskeyRec(flags, algorithm, public_key) ==
    [rtype |-> "DNSKEY", flags |-> flags, algorithm |-> algorithm,
     public_key |-> public_key]
OtherDnskey == [rtype |-> "CNAME", flags |-> 0, algorithm |-> 0, public_key |-> 0]

AllOfType(records, rtype) == \A i \in 1..Len(records) : records[i].rtype = rtype

\* query_ds collecting the DS records of every section of the response.
query_ds_all_sections(pzone, child_name, af_mode, response) ==
    LET parent_addr == random_address(pzone.nameservers, af_mode)
    IN  IF parent_addr = None
        THEN [kind |-> "Err", records |-> <<>>,
              message |-> "no name server address found", queries |-> <<>>]
        ELSE LET q == <<Query("DS", child_name, parent_addr[1], response.ok)>>
             IN  IF ~response.ok \/ ~AllOfType(response.answers, "DS")
                 THEN [kind |-> "Panic", records |-> <<>>, message |-> "",
                       queries |-> q]
                 ELSE [kind |-> "Ok",
                       records |-> response.answers \o response.name_servers
                                   \o response.additionals,
                       message |-> "", queries |-> q]

query_ds(pzone, child_name, af_mode, response) ==
    LET parent_addr == random_address(pzone.nameservers, af_mode)
    IN  IF parent_addr = None
        THEN [kind |-> "Err", records |-> <<>>,
              message |-> "no name server address found", queries |-> <<>>]
        ELSE LET q == <<Query("DS", child_name, parent_addr[1], response.ok)>>
             IN  IF ~response.ok \/ ~AllOfType(response.answers, "DS")
                 THEN [kind |-> "Panic", records |-> <<>>, message |-> "",
                       queries |-> q]
                 ELSE [kind |-> "Ok", records |-> response.answers,
                       message |-> "", queries |-> q]

\* query_dnskey answering with no record when the child has no address.
query_dnskey_empty(czone, af_mode, response) ==
    LET child_addr == random_address(czone.nameservers, af_mode)
    IN  IF child_addr = None
        THEN [kind |-> "Ok", records |-> <<>>, message |-> "", queries |-> <<>>]
        ELSE LET q == <<Query("DNSKEY", czone.name, child_addr[1], response.ok)>>
             IN  IF ~response.ok \/ ~AllOfType(response.answers, "DNSKEY")
                 THEN [kind |-> "Panic", records |-> <<>>, message |-> "",
                       queries |-> q]
                 ELSE [kind |-> "Ok", records |-> response.answers,
                       message |-> "", queries |-> q]

query_dnskey(czone, af_mode, response) ==
    LET child_addr == random_address(czone.nameservers, af_mode)
    IN  IF child_addr = None
        THEN [kind |-> "Err", records |-> <<>>,
              message |-> "no name server address found", queries |-> <<>>]
        ELSE LET q == <<Query("DNSKEY", czone.name, child_addr[1], response.ok)>>
             IN  IF ~response.ok \/ ~AllOfType(response.answers, "DNSKEY")
                 THEN [kind |-> "Panic", records |-> <<>>, message |-> "",
                       queries |-> q]
                 ELSE [kind |-> "Ok", records |-> response.answers,
                       message |-> "", queries |-> q]

\* DNSKEY::calculate_key_tag (RFC 4034, appendix B): the 16-bit sum of the
\* 16-bit words of the record data, here flags, protocol (3) and algorithm,
\* and one word of key.
Protocol == 3
Two16 == 65536
calculate_key_tag(dnskey) ==
    LET ac == dnskey.flags + (Protocol * 256 + dnskey.algorithm) + dnskey.public_key
    IN  (ac + (ac \div Two16)) % Two16

\* ds_matches comparing the key tags alone, not the algorithms.
RECURSIVE ds_matches_tag_only(_, _)
ds_matches_tag_only(ds, dnskey_records) ==
    IF dnskey_records = <<>> THEN FALSE
    ELSE IF ds.key_tag = calculate_key_tag(Head(dnskey_records)) THEN TRUE
    ELSE ds_matches_tag_only(ds, Tail(dnskey_records))

\* The inner loop of query_trust: does some DNSKEY match this DS record.
RECURSIVE ds_matches(_, _)
ds_matches(ds, dnskey_records) ==
    IF dnskey_records = <<>> THEN FALSE
    ELSE LET dnskey == Head(dnskey_records)
         IN  IF ds.key_tag = calculate_key_tag(dnskey)
                /\ ds.algorithm = dnskey.algorithm
             THEN TRUE
             ELSE ds_matches(ds, Tail(dnskey_records))

\* The outer loop of query_trust and its final return.
RECURSIVE match_trust(_, _)
match_trust(ds_records, dnskey_records) ==
    IF ds_records = <<>> THEN [trust |-> "Untrusted", reason |-> "missing DS"]
    ELSE IF ds_matches(Head(ds_records), dnskey_records)
    THEN [trust |-> "Trusted", reason |-> ""]
    ELSE match_trust(Tail(ds_records), dnskey_records)

NoTrust == [trust |-> "", reason |-> ""]

\* query_trust asking the child for its DNSKEY records before the parent for
\* the DS records.
query_trust_child_first(pzone, czone, af_mode, ds_response, dnskey_response) ==
    LET ds == query_ds(pzone, czone.name, af_mode, ds_response)
        dnskey == query_dnskey(czone, af_mode, dnskey_response)
    IN  IF dnskey.kind # "Ok"
        THEN [kind |-> dnskey.kind, trust |-> NoTrust, message |-> dnskey.message,
              queries |-> dnskey.queries]
        ELSE IF ds.kind # "Ok"
        THEN [kind |-> ds.kind, trust |-> NoTrust, message |-> ds.message,
              queries |-> dnskey.queries \o ds.queries]
        ELSE [kind |-> "Ok", trust |-> match_trust(ds.records, dnskey.records),
              message |-> "", queries |-> dnskey.queries \o ds.queries]

query_trust(pzone, czone, af_mode, ds_response, dnskey_response) ==
    LET ds == query_ds(pzone, czone.name, af_mode, ds_response)
        dnskey == query_dnskey(czone, af_mode, dnskey_response)
    IN  IF ds.kind # "Ok"
        THEN [kind |-> ds.kind, trust |-> NoTrust, message |-> ds.message,
              queries |-> ds.queries]
        ELSE IF dnskey.kind # "Ok"
        THEN [kind |-> dnskey.kind, trust |-> NoTrust, message |-> dnskey.message,
              queries |-> ds.queries \o dnskey.queries]
        ELSE [kind |-> "Ok", trust |-> match_trust(ds.records, dnskey.records),
              message |-> "", queries |-> ds.queries \o dnskey.queries]

-----------------------------------------------------------------------------
(* main.rs: the output lines                                               *)

\* console::style(text).<color>(): the text and its colour.
style(text, colour) == [text |-> text, colour |-> colour]

Line(stream, text) == [stream |-> stream, text |-> text]

\* print_trust writing every verdict with println!.
print_trust_stdout(trust, p, c) ==
    LET styled_trust == IF trust.trust = "Trusted" THEN style("OK", "green")
                        ELSE style("Untrusted", "red")
        message == IF trust.trust = "Untrusted" THEN <<" - ", trust.reason>>
                   ELSE <<>>
    IN  Line("stdout", <<"[", styled_trust, "] ", p, " -> ", c>> \o message)

\* print_trust: "[{styled_trust}] {parent} -> {child}{message}", to stdout
\* for Trusted (println!) and to stderr for Untrusted (eprintln!).
print_trust(trust, p, c) ==
    LET styled_trust == IF trust.trust = "Trusted" THEN style("OK", "green")
                        ELSE style("Untrusted", "red")
        message == IF trust.trust = "Untrusted" THEN <<" - ", trust.reason>>
                   ELSE <<>>
        line == <<"[", styled_trust, "] ", p, " -> ", c>> \o message
    IN  IF trust.trust = "Trusted" THEN Line("stdout", line)
        ELSE Line("stderr", line)

\* print_error: "[{Error}] {parent} -> {child} - {message}", to stderr.
print_error(message, p, c) ==
    Line("stderr", <<"[", style("Error", "red"), "] ", p, " -> ", c, " - ", message>>)

-----------------------------------------------------------------------------
(* main.rs: the walk                                                       *)

RootAddress == "192.36.148.17"

Ns1 == <<"ns1", "example">>
Ns2 == <<"ns2", "example">>

\* What the servers asked during the walk may answer to an NS query: no
\* nameserver, a glueless delegation, IPv4 glue, or IPv6 glue.
WalkNsResponses ==
    { TransportError,
      Response(<<>>, <<>>, <<>>),
      Response(<<>>, <<Rec(<<"a">>, "NS", Some(Ns1))>>, <<>>),
      Response(<<>>, <<Rec(<<"a">>, "NS", Some(Ns1))>>,
               <<Rec(Ns1, "A", Some("192.0.2.1"))>>),
      Response(<<Rec(<<"a">>, "NS", Some(Ns1))>>, <<>>,
               <<Rec(Ns1, "AAAA", Some("2001:db8::1"))>>) }

Answer(answers) == Response(answers, <<>>, <<>>)

\* ... to a DS query, and to a DNSKEY query. The last response of each set
\* has records outside its answer section.
WalkDsResponses ==
    { TransportError, Answer(<<>>), Answer(<<DsRec(1039, 8)>>),
      Answer(<<OtherDs>>),
      Response(<<>>, <<DsRec(1039, 8)>>, <<DsRec(1039, 8)>>) }

WalkDnskeyResponses ==
    { TransportError, Answer(<<DnskeyRec(257, 13, 1)>>),
      Answer(<<DnskeyRec(257, 13, 1), DnskeyRec(257, 8, 6)>>),
      Response(<<DnskeyRec(257, 13, 1)>>, <<DnskeyRec(257, 8, 6)>>,
               <<DnskeyRec(257, 8, 6)>>) }

NoIter == [target |-> <<>>, current_level |-> 0]

InitMain ==
    /\ fn = "main" /\ arg = <<>> /\ ret = <<>>
    /\ pc = "start"
    /\ args \in [root_address : {RootAddress}, origin : Names,
                 ip_family_mode : Modes, zone : Names]
    /\ it = NoIter
    /\ last_zone = NoZone
    /\ parent = <<>> /\ child = <<>>
    /\ parent_zone = None
    /\ result = None
    /\ responses = None
    /\ out = <<>>
    /\ queries = <<>>
    /\ yielded = <<>>

\* The walk starting from the root zone whatever the origin.
Start_root ==
    /\ fn = "main" /\ pc = "start"
    /\ \E response \in WalkNsResponses :
         LET r == query_zone(<<>>, args.root_address, response)
         IN  /\ queries' = queries \o r.queries
             /\ IF r.kind = "Panic"
                THEN /\ pc' = "panic"
                     /\ UNCHANGED <<last_zone, it>>
                ELSE /\ pc' = "loop"
                     /\ last_zone' = r.zone
                     /\ it' = iter(args.zone, args.origin)
    /\ UNCHANGED <<args, parent, child, parent_zone, result, responses, out,
                   yielded, fn, arg, ret>>

\* main.rs 27-33: resolve the origin at the root address; it becomes the
\* last known zone, and the iterator is built.
Start ==
    /\ fn = "main" /\ pc = "start"
    /\ \E response \in WalkNsResponses :
         LET r == query_zone(args.origin, args.root_address, response)
         IN  /\ queries' = queries \o r.queries
             /\ IF r.kind = "Panic"
                THEN /\ pc' = "panic"
                     /\ UNCHANGED <<last_zone, it>>
                ELSE /\ pc' = "loop"
                     /\ last_zone' = r.zone
                     /\ it' = iter(args.zone, args.origin)
    /\ UNCHANGED <<args, parent, child, parent_zone, result, responses, out,
                   yielded, fn, arg, ret>>

\* The loop head giving up after the first hop (an `if let`, not a `for`).
LoopNext_once ==
    /\ fn = "main" /\ pc = "loop"
    /\ LET n == ZoneIterator_next(it)
       IN  /\ it' = n.self
           /\ IF n.item = None \/ yielded # <<>>
              THEN /\ pc' = "done"
                   /\ UNCHANGED <<parent, child, yielded>>
              ELSE /\ pc' = "hop"
                   /\ parent' = n.item[1][1]
                   /\ child' = n.item[1][2]
                   /\ yielded' = Append(yielded, n.item[1])
    /\ parent_zone' = None
    /\ result' = None
    /\ responses' = None
    /\ UNCHANGED <<args, last_zone, out, queries, fn, arg, ret>>

\* main.rs 33: the head of the for loop calls next(); None ends the walk.
LoopNext ==
    /\ fn = "main" /\ pc = "loop"
    /\ LET n == ZoneIterator_next(it)
       IN  /\ it' = n.self
           /\ IF n.item = None
              THEN /\ pc' = "done"
                   /\ UNCHANGED <<parent, child, yielded>>
              ELSE /\ pc' = "hop"
                   /\ parent' = n.item[1][1]
                   /\ child' = n.item[1][2]
                   /\ yielded' = Append(yielded, n.item[1])
    /\ parent_zone' = None
    /\ result' = None
    /\ responses' = None
    /\ UNCHANGED <<args, last_zone, out, queries, fn, arg, ret>>

\* The else branch of the hop falling back on the root address to resolve the
\* child before it reports its error.
HopNoAddress_root ==
    /\ fn = "main" /\ pc = "hop"
    /\ random_address(last_zone.nameservers, args.ip_family_mode) = None
    /\ \E response \in WalkNsResponses \ {TransportError} :
         LET r == query_zone(child, args.root_address, response)
         IN  /\ queries' = queries \o r.queries
             /\ last_zone' = r.zone
    /\ out' = Append(out, print_error("no usable address found for nameserver",
                                      parent, child))
    /\ pc' = "loop"
    /\ UNCHANGED <<args, it, parent, child, parent_zone, result, responses,
                   yielded, fn, arg, ret>>

\* The else branch of the hop without its print_error.
HopNoAddress_silent ==
    /\ fn = "main" /\ pc = "hop"
    /\ random_address(last_zone.nameservers, args.ip_family_mode) = None
    /\ pc' = "loop"
    /\ UNCHANGED <<args, it, last_zone, parent, child, parent_zone, result,
                   responses, out, queries, yielded, fn, arg, ret>>

\* main.rs 34, 46-52: no address in the last known zone.
HopNoAddress ==
    /\ fn = "main" /\ pc = "hop"
    /\ random_address(last_zone.nameservers, args.ip_family_mode) = None
    /\ out' = Append(out, print_error("no usable address found for nameserver",
                                      parent, child))
    /\ pc' = "loop"
    /\ UNCHANGED <<args, it, last_zone, parent, child, parent_zone, result,
                   responses, queries, yielded, fn, arg, ret>>

\* The hop resolving the child without making it the last known zone.
HopQueryZone_keep ==
    /\ fn = "main" /\ pc = "hop"
    /\ LET addr == random_address(last_zone.nameservers, args.ip_family_mode)
       IN  /\ addr # None
           /\ \E response \in WalkNsResponses :
                LET r == query_zone(child, addr[1], response)
                IN  /\ queries' = queries \o r.queries
                    /\ parent_zone' = Some(last_zone)
                    /\ pc' = IF r.kind = "Panic" THEN "panic" ELSE "trust"
    /\ UNCHANGED <<args, it, last_zone, parent, child, result, responses, out,
                   yielded, fn, arg, ret>>

\* main.rs 34-38: resolve the child at an address of the last known zone.
HopQueryZone ==
    /\ fn = "main" /\ pc = "hop"
    /\ LET addr == random_address(last_zone.nameservers, args.ip_family_mode)
       IN  /\ addr # None
           /\ \E response \in WalkNsResponses :
                LET r == query_zone(child, addr[1], response)
                IN  /\ queries' = queries \o r.queries
                    /\ parent_zone' = Some(last_zone)
                    /\ IF r.kind = "Panic"
                       THEN pc' = "panic" /\ UNCHANGED last_zone
                       ELSE pc' = "trust" /\ last_zone' = r.zone
    /\ UNCHANGED <<args, it, parent, child, result, responses, out, yielded,
                   fn, arg, ret>>

\* The trust check leaving the loop after an Untrusted verdict or an error.
HopQueryTrust_stop ==
    /\ fn = "main" /\ pc = "trust"
    /\ \E ds_response \in WalkDsResponses, dnskey_response \in WalkDnskeyResponses :
         LET r == query_trust(parent_zone[1], last_zone, args.ip_family_mode,
                              ds_response, dnskey_response)
         IN  /\ queries' = queries \o r.queries
             /\ IF r.kind = "Panic"
                THEN pc' = "panic" /\ UNCHANGED <<result, responses, out>>
                ELSE /\ pc' = IF r.kind = "Ok" /\ r.trust.trust = "Trusted"
                              THEN "loop" ELSE "done"
                     /\ result' = Some([kind |-> r.kind, trust |-> r.trust,
                                        message |-> r.message])
                     /\ responses' = IF r.kind = "Ok"
                                     THEN Some([ds |-> ds_response,
                                                dnskey |-> dnskey_response])
                                     ELSE None
                     /\ out' = Append(out,
                                 IF r.kind = "Ok"
                                 THEN print_trust(r.trust, parent, child)
                                 ELSE print_error(r.message, parent, child))
    /\ UNCHANGED <<args, it, last_zone, parent, child, parent_zone, yielded,
                   fn, arg, ret>>

\* The trust check called with its two zones exchanged.
HopQueryTrust_swapped ==
    /\ fn = "main" /\ pc = "trust"
    /\ \E ds_response \in WalkDsResponses, dnskey_response \in WalkDnskeyResponses :
         LET r == query_trust(last_zone, parent_zone[1], args.ip_family_mode,
                              ds_response, dnskey_response)
         IN  /\ queries' = queries \o r.queries
             /\ IF r.kind = "Panic"
                THEN pc' = "panic" /\ UNCHANGED <<result, responses, out>>
                ELSE /\ pc' = "loop"
                     /\ result' = Some([kind |-> r.kind, trust |-> r.trust,
                                        message |-> r.message])
                     /\ responses' = IF r.kind = "Ok"
                                     THEN Some([ds |-> ds_response,
                                                dnskey |-> dnskey_response])
                                     ELSE None
                     /\ out' = Append(out,
                                 IF r.kind = "Ok"
                                 THEN print_trust(r.trust, parent, child)
                                 ELSE print_error(r.message, parent, child))
    /\ UNCHANGED <<args, it, last_zone, parent, child, parent_zone, yielded,
                   fn, arg, ret>>

\* main.rs 40-45: the trust check and its line.
HopQueryTrust ==
    /\ fn = "main" /\ pc = "trust"
    /\ \E ds_response \in WalkDsResponses, dnskey_response \in WalkDnskeyResponses :
         LET r == query_trust(parent_zone[1], last_zone, args.ip_family_mode,
                              ds_response, dnskey_response)
         IN  /\ queries' = queries \o r.queries
             /\ IF r.kind = "Panic"
                THEN pc' = "panic" /\ UNCHANGED <<result, responses, out>>
                ELSE /\ pc' = "loop"
                     /\ result' = Some([kind |-> r.kind, trust |-> r.trust,
                                        message |-> r.message])
                     /\ responses' = IF r.kind = "Ok"
                                     THEN Some([ds |-> ds_response,
                                                dnskey |-> dnskey_response])
                                     ELSE None
                     /\ out' = Append(out,
                                 IF r.kind = "Ok"
                                 THEN print_trust(r.trust, parent, child)
                                 ELSE print_error(r.message, parent, child))
    /\ UNCHANGED <<args, it, last_zone, parent, child, parent_zone, yielded,
                   fn, arg, ret>>

Next ==
    \/ Start
    \/ LoopNext
    \/ HopNoAddress
    \/ HopQueryZone
    \/ HopQueryTrust

Init == InitMain

Spec == Init /\ [][Next]_vars

\* main is one sequential thread: it takes its next step whenever it has one.
FairSpec == Spec /\ WF_vars(Next)

-----------------------------------------------------------------------------
(* The functions on their own: the input is drawn at Init, one action      *)
(* applies the function to it.                                             *)

NameserverLists ==
    SeqsUpTo({Nameserver(Ns1, a) : a \in SeqsUpTo(Addrs, MaxAddrs)}, MaxNs)

\* The records of the answer and authority sections of an NS response, and
\* those of its additional section (the last one has no data).
NsSectionRecs ==
    {Rec(<<"a">>, "NS", Some(Ns1)), Rec(<<"a">>, "NS", Some(Ns2)),
     Rec(<<"a">>, "SOA", Some(Ns1))}
GlueRecs ==
    {Rec(n, "A", Some("192.0.2.1")) : n \in NsNames}
    \cup {Rec(n, "AAAA", Some("2001:db8::1")) : n \in NsNames}
    \cup {Rec(n, "TXT", Some("text")) : n \in NsNames}
    \cup {Rec(Ns1, "A", None)}

NsResponses ==
    [ok : {TRUE}, answers : SeqsUpTo(NsSectionRecs, MaxAnswers),
     name_servers : SeqsUpTo(NsSectionRecs, MaxAuthority),
     additionals : SeqsUpTo(GlueRecs, MaxGlue)]

\* DS records, and DNSKEY records of key tags 1039, 1039 and 1034.
DsRecs == {DsRec(1039, 8), DsRec(1039, 13), DsRec(1034, 8), OtherDs}
DnskeyRecs ==
    {DnskeyRec(257, 8, 6), DnskeyRec(257, 13, 1), DnskeyRec(257, 8, 1), OtherDnskey}

DsResponses == {TransportError} \cup {Answer(a) : a \in SeqsUpTo(DsRecs, MaxRecords)}
DnskeyResponses ==
    {TransportError} \cup {Answer(a) : a \in SeqsUpTo(DnskeyRecs, MaxRecords)}

TrustNsLists ==
    {<<Nameserver(Ns1, <<>>)>>, <<Nameserver(Ns1, <<"192.0.2.1">>)>>}

WalkIdle ==
    /\ args = [root_address |-> RootAddress, origin |-> <<>>,
               ip_family_mode |-> "Any", zone |-> <<>>]
    /\ it = NoIter
    /\ last_zone = NoZone
    /\ parent = <<>> /\ child = <<>>
    /\ parent_zone = None
    /\ result = None
    /\ responses = None
    /\ out = <<>>
    /\ queries = <<>>
    /\ yielded = <<>>

InitFn ==
    /\ WalkIdle
    /\ pc = "call"
    /\ \/ /\ fn = "random_address"
          /\ arg \in [nameservers : NameserverLists, mode : Modes]
          /\ ret = <<>>
       \/ /\ fn = "to_ns"
          /\ arg \in NsResponses
          /\ ret = <<>>
       \/ /\ fn = "query_trust"
          /\ arg \in [pzone : {Zone(<<"a">>, ns) : ns \in TrustNsLists},
                      czone : {Zone(<<"b", "a">>, ns) : ns \in TrustNsLists},
                      af_mode : Modes,
                      ds_response : DsResponses,
                      dnskey_response : DnskeyResponses]
          /\ ret = <<>>
       \/ /\ fn = "iter"
          /\ arg \in [name : Names, origin : Names]
          /\ ret = [self |-> iter(arg.name, arg.origin), items |-> <<>>]

CallRandomAddress ==
    /\ fn = "random_address" /\ pc = "call"
    /\ ret' = random_address(arg.nameservers, arg.mode)
    /\ pc' = "ret"
    /\ UNCHANGED <<walk_vars, fn, arg>>

CallToNs ==
    /\ fn = "to_ns" /\ pc = "call"
    /\ ret' = to_ns(arg)
    /\ pc' = "ret"
    /\ UNCHANGED <<walk_vars, fn, arg>>

CallQueryTrust ==
    /\ fn = "query_trust" /\ pc = "call"
    /\ ret' = query_trust(arg.pzone, arg.czone, arg.af_mode, arg.ds_response,
                          arg.dnskey_response)
    /\ pc' = "ret"
    /\ UNCHANGED <<walk_vars, fn, arg>>

NoneCount(items) == Cardinality({i \in 1..Len(items) : items[i] = None})

\* One more call of next() on the iterator, until it has returned None
\* MaxNone times.
CallNext ==
    /\ fn = "iter" /\ pc = "call"
    /\ LET n == ZoneIterator_next(ret.self)
           items == Append(ret.items, n.item)
       IN  /\ ret' = [self |-> n.self, items |-> items]
           /\ pc' = IF NoneCount(items) >= MaxNone THEN "ret" ELSE "call"
    /\ UNCHANGED <<walk_vars, fn, arg>>

NextFn ==
    \/ CallRandomAddress
    \/ CallToNs
    \/ CallQueryTrust
    \/ CallNext

SpecFn == InitFn /\ [][NextFn]_vars

-----------------------------------------------------------------------------
(* Claims about the functions (SpecFn)                                     *)

Returned(f) == fn = f /\ pc = "ret"

\* Some DS record and some DNSKEY record have equal key tags and algorithms.
MatchingPair(ds_records, dnskey_records) ==
    \E i \in 1..Len(ds_records), j \in 1..Len(dnskey_records) :
        /\ ds_records[i].key_tag = calculate_key_tag(dnskey_records[j])
        /\ ds_records[i].algorithm = dnskey_records[j].algorithm

\* The family mode accepts the address.
Accepts(mode, a) ==
    \/ mode = "Any"
    \/ mode = "Ipv4" /\ a \in Ipv4Addrs
    \/ mode = "Ipv6" /\ a \in Ipv6Addrs

\* Some address of some nameserver of the zone is accepted by the mode.
Selectable(zone, mode) ==
    \E i \in 1..Len(zone.nameservers) :
        \E j \in 1..Len(zone.nameservers[i].addresses) :
            Accepts(mode, zone.nameservers[i].addresses[j])

\* Both queries of a trust check return an answer of the records asked for.
QueriesSucceed(a) ==
    /\ a.ds_response.ok /\ a.dnskey_response.ok
    /\ \A i \in 1..Len(a.ds_response.answers) : a.ds_response.answers[i] # OtherDs
    /\ \A i \in 1..Len(a.dnskey_response.answers) :
           a.dnskey_response.answers[i] # OtherDnskey

\* C1: when an address can be selected from the parent and from the child and
\* both queries succeed, query_trust returns Trusted if and only if some DS
\* record of the parent's answer and some DNSKEY record of the child's answer
\* have equal key tags and equal algorithms, and Untrusted("missing DS")
\* otherwise.
C1_TrustedIffMatchingPair ==
    (/\ Returned("query_trust")
     /\ Selectable(arg.pzone, arg.af_mode) /\ Selectable(arg.czone, arg.af_mode)
     /\ QueriesSucceed(arg))
    => /\ ret.kind = "Ok"
       /\ IF MatchingPair(arg.ds_response.answers, arg.dnskey_response.answers)
          THEN ret.trust = [trust |-> "Trusted", reason |-> ""]
          ELSE ret.trust = [trust |-> "Untrusted", reason |-> "missing DS"]

\* Trusted by the second DS record and the second DNSKEY record, the first
\* DNSKEY having the key tag of that DS record and another algorithm.
C1_Witness ==
    /\ Returned("query_trust")
    /\ arg.ds_response = Answer(<<DsRec(1034, 8), DsRec(1039, 8)>>)
    /\ arg.dnskey_response = Answer(<<DnskeyRec(257, 13, 1), DnskeyRec(257, 8, 6)>>)
    /\ ret.kind = "Ok" /\ ret.trust.trust = "Trusted"

\* The rightmost n labels of a name.
Suffix(name, n) == [i \in 1..n |-> name[Len(name) - n + i]]
IsLabelSuffix(origin, name) ==
    Len(origin) <= Len(name) /\ Suffix(name, Len(origin)) = origin

\* The items returned so far that are pairs, and whether None was returned.
PairsOf(items) ==
    LET some == SelectSeq(items, LAMBDA x : x # None)
    IN  [k \in 1..Len(some) |-> some[k][1]]

Accepted(nameservers, mode) ==
    UNION {{<<i, j>> : j \in {j \in 1..Len(nameservers[i].addresses) :
                                 Accepts(mode, nameservers[i].addresses[j])}} :
           i \in 1..Len(nameservers)}

ScannedBefore(p, q) == p[1] < q[1] \/ (p[1] = q[1] /\ p[2] < q[2])

\* C7: random_address returns the first address, in scan order (nameservers in
\* list order, the addresses of each in order), that the mode accepts, and
\* None exactly when the mode accepts no address of the list.
C7_FirstAcceptedAddress ==
    Returned("random_address") =>
        LET acc == Accepted(arg.nameservers, arg.mode)
        IN  /\ ret = None <=> acc = {}
            /\ acc # {} =>
                 \E p \in acc :
                    /\ \A q \in acc : q = p \/ ScannedBefore(p, q)
                    /\ ret = Some(arg.nameservers[p[1]].addresses[p[2]])

\* Ipv4 mode: the first nameserver has only an IPv6 address, the second an
\* IPv6 address and then an IPv4 one, which is returned.
C7_Witness ==
    /\ Returned("random_address")
    /\ arg.mode = "Ipv4"
    /\ arg.nameservers = <<Nameserver(Ns1, <<"2001:db8::1">>),
                           Nameserver(Ns1, <<"2001:db8::1", "192.0.2.53">>)>>
    /\ ret = Some("192.0.2.53")

\* The NS records of the answer section followed by the authority section.
NsRecordsOf(response) ==
    SelectSeq(response.answers \o response.name_servers, LAMBDA r : r.rtype = "NS")

\* The addresses of the additional A and AAAA records owned by a name, in
\* section order.
GlueAddresses(response, name) ==
    LET glue == SelectSeq(response.additionals,
                          LAMBDA x : /\ x.name = name
                                     /\ x.rtype \in {"A", "AAAA"}
                                     /\ x.data # None)
    IN  [k \in 1..Len(glue) |-> glue[k].data[1]]

Range(seq) == {seq[i] : i \in 1..Len(seq)}

\* C8 as stated: one nameserver entry per distinct NS record of the answer
\* and authority sections.
C8_OneEntryPerDistinctNsRecord ==
    Returned("to_ns") => Len(ret) = Cardinality(Range(NsRecordsOf(arg)))

\* C8, amended: one nameserver entry per NS record of the answer section and
\* then the authority section, in order, an NS record that occurs twice giving
\* two entries; entry k has the name of the k-th NS record and exactly the
\* A/AAAA addresses of the additional section owned by that name, in section
\* order, none if there is no such glue. NS records ns1.example. and
\* ns2.example. with glue 192.0.2.1 and 2001:db8::1 give two entries with one
\* address each.
C8_OneEntryPerNsRecord ==
    Returned("to_ns") =>
        LET ns_records == NsRecordsOf(arg)
        IN  /\ Len(ret) = Len(ns_records)
            /\ \A k \in 1..Len(ret) :
                  /\ ret[k].name = ns_records[k].data[1]
                  /\ ret[k].addresses = GlueAddresses(arg, ret[k].name)
            /\ (/\ Range(ns_records) = {Rec(<<"a">>, "NS", Some(Ns1)),
                                        Rec(<<"a">>, "NS", Some(Ns2))}
                /\ Len(ns_records) = 2
                /\ arg.additionals = <<Rec(Ns1, "A", Some("192.0.2.1")),
                                       Rec(Ns2, "AAAA", Some("2001:db8::1"))>>)
               => \E i, j \in 1..2 :
                     /\ i # j /\ Len(ret) = 2
                     /\ ret[i] = Nameserver(Ns1, <<"192.0.2.1">>)
                     /\ ret[j] = Nameserver(Ns2, <<"2001:db8::1">>)

\* ns1 in the answer section with its IPv4 glue, ns2 in the authority section
\* without glue: two entries, the second with no address.
C8_Witness ==
    /\ Returned("to_ns")
    /\ arg.answers = <<Rec(<<"a">>, "NS", Some(Ns1))>>
    /\ arg.name_servers = <<Rec(<<"a">>, "NS", Some(Ns2))>>
    /\ arg.additionals = <<Rec(Ns1, "A", Some("192.0.2.1")),
                           Rec(Ns2, "TXT", Some("text"))>>
    /\ ret = <<Nameserver(Ns1, <<"192.0.2.1">>), Nameserver(Ns2, <<>>)>>

-----------------------------------------------------------------------------
(* Claims about the walk (Spec)                                            *)

\* The number of delegation steps between the origin and the target.
Steps ==
    IF Len(args.zone) > Len(args.origin) THEN Len(args.zone) - Len(args.origin)
    ELSE 0

Tag(line) == line.text[2].text

\* The line reads "[tag] p -> c", followed by " - reason" if there is one,
\* colours aside, and was written to the stream.
IsLine(line, stream, tag, p, c, reason) ==
    /\ line.stream = stream
    /\ line.text[1] = "[" /\ Tag(line) = tag /\ line.text[3] = "] "
    /\ line.text[4] = p /\ line.text[5] = " -> " /\ line.text[6] = c
    /\ IF reason = "" THEN Len(line.text) = 6
       ELSE Len(line.text) = 8 /\ line.text[7] = " - " /\ line.text[8] = reason

NoUsable == "no usable address found for nameserver"
NoNsAddress == "no name server address found"

C5_TransportFailureIsFatal ==
    /\ \A i \in 1..Len(queries) : ~queries[i].ok =>
          /\ i = Len(queries)
          /\ pc = "panic"
          /\ IF i = 1 THEN yielded = <<>> /\ out = <<>>
             ELSE Len(out) + 1 = Len(yielded)
    /\ pc = "panic" => ~ENABLED Next

\* The DNSKEY query of the second step fails after one line was written.
C5_Witness ==
    /\ pc = "panic"
    /\ Len(queries) = 7
    /\ queries[7].qtype = "DNSKEY" /\ ~queries[7].ok
    /\ Len(out) = 1 /\ Len(yielded) = 2

\* The zone has nameservers, none of them with an address.
Glueless(zone) ==
    /\ zone.nameservers # <<>>
    /\ \A i \in 1..Len(zone.nameservers) : zone.nameservers[i].addresses = <<>>

\* C6 as stated: the hop that resolves a child delegated to nameservers
\* without addresses reports "no usable address found for nameserver".
C6_GluelessHopReportsNoUsable ==
    (pc = "loop" /\ result # None /\ Glueless(last_zone))
    => IsLine(out[Len(out)], "stderr", "Error", parent, child, NoUsable)

\* C6, amended: the hop that resolves a child delegated to nameservers
\* without addresses reports, unless its DS query fails, the error line
\* "[Error] parent -> child - no name server address found"; every later hop
\* can only report "[Error] parent -> child - no usable address found for
\* nameserver", and does: the walk is not aborted and ends with a line for
\* every step.
C6_GluelessHopReportsNoNsAddress ==
    /\ (pc = "loop" /\ result # None /\ Glueless(last_zone))
          => /\ result[1].kind = "Err"
             /\ IsLine(out[Len(out)], "stderr", "Error", parent, child, NoNsAddress)
    /\ (pc = "hop" /\ Glueless(last_zone))
          => ENABLED HopNoAddress /\ ~ENABLED HopQueryZone
    /\ (pc = "loop" /\ result = None /\ Len(out) >= 1 /\ Glueless(last_zone))
          => IsLine(out[Len(out)], "stderr", "Error", parent, child, NoUsable)
    /\ (pc = "panic" /\ Glueless(last_zone))
          => parent_zone # None /\ queries[Len(queries)].qtype = "DS"
    /\ (pc = "done" /\ Glueless(last_zone)) => Len(out) = Steps

\* A finished walk of three steps whose second step resolved a glueless child.
C6_Witness ==
    /\ pc = "done" /\ Glueless(last_zone) /\ Len(out) = 3
    /\ Tag(out[1]) = "OK"
    /\ IsLine(out[2], "stderr", "Error", yielded[2][1], yielded[2][2], NoNsAddress)
    /\ IsLine(out[3], "stderr", "Error", yielded[3][1], yielded[3][2], NoUsable)

\* C9: when the target has no more labels than the origin, the first call of
\* next() returns None, and the walk makes no hop: no pair is yielded, no
\* query follows that of the origin, no trust check is made, no line written.
C9_NoHopWhenTargetNotBelowOrigin ==
    Len(args.zone) <= Len(args.origin) =>
        /\ pc \in {"start", "loop", "done", "panic"}
        /\ pc = "loop" => ZoneIterator_next(it).item = None
        /\ yielded = <<>> /\ out = <<>> /\ result = None
        /\ Len(queries) <= 1

\* Root as target and as origin: the walk has ended after its first query.
C9_Witness ==
    /\ pc = "done" /\ args.zone = <<>> /\ args.origin = <<>>
    /\ Len(queries) = 1 /\ out = <<>>

\* C10: every line is "[OK] parent -> child" on stdout, or "[Untrusted]
\* parent -> child - reason" or "[Error] parent -> child - reason" on stderr,
\* with the pair the iterator yielded for that hop; the line of a hop is the
\* one of its outcome: OK for Trusted, Untrusted with the verdict's reason,
\* Error with the error's message.
C10_LineFormats ==
    /\ \A i \in 1..Len(out) :
          LET p == yielded[i][1]
              c == yielded[i][2]
          IN  \/ IsLine(out[i], "stdout", "OK", p, c, "")
              \/ /\ Len(out[i].text) = 8
                 /\ IsLine(out[i], "stderr", "Untrusted", p, c, out[i].text[8])
              \/ /\ Len(out[i].text) = 8
                 /\ IsLine(out[i], "stderr", "Error", p, c, out[i].text[8])
    /\ (pc = "loop" /\ Len(out) >= 1) =>
          LET line == out[Len(out)]
          IN  IF result = None
              THEN IsLine(line, "stderr", "Error", parent, child, NoUsable)
              ELSE IF result[1].kind = "Err"
              THEN IsLine(line, "stderr", "Error", parent, child, result[1].message)
              ELSE IF result[1].trust.trust = "Trusted"
              THEN IsLine(line, "stdout", "OK", parent, child, "")
              ELSE /\ result[1].trust.trust = "Untrusted"
                   /\ IsLine(line, "stderr", "Untrusted", parent, child,
                             result[1].trust.reason)

\* Back at the loop head after an Untrusted line and then an OK line.
C10_Witness ==
    /\ pc = "loop" /\ Len(out) = 2
    /\ IsLine(out[1], "stderr", "Untrusted", yielded[1][1], yielded[1][2], "missing DS")
    /\ IsLine(out[2], "stdout", "OK", parent, child, "")
    /\ result # None

\* The queries a step adds to the log.
Added == SubSeq(queries', Len(queries) + 1, Len(queries'))

\* The address random_address selects from a zone under the walk's mode.
Selected(zone) == random_address(zone.nameservers, args.ip_family_mode)

\* C11: the hop that resolves its child sends the child's NS query to the
\* address selected from the last known zone, which is the zone resolved at
\* the preceding resolving step (the origin, resolved at the root address,
\* before the first hop): the last known zone changes at resolving steps
\* only. The trust check is made with that previous zone as parent and the
\* newly resolved zone as child, and it leaves the newly resolved zone as the
\* last known zone whatever it returns.
C11_LastZoneThreading ==
    [][/\ (pc = "start" /\ pc' = "loop")
             => /\ Added = <<Query("NS", args.origin, args.root_address, TRUE)>>
                /\ last_zone'.name = args.origin
       /\ (pc = "hop" /\ pc' \in {"trust", "panic"})
             => /\ Selected(last_zone) # None
                /\ Added = <<Query("NS", child, Selected(last_zone)[1],
                                   pc' = "trust")>>
                /\ parent_zone' = Some(last_zone)
                /\ pc' = "trust" => last_zone'.name = child
       /\ pc = "trust"
             => /\ last_zone' = last_zone /\ parent_zone' = parent_zone
                /\ \A i \in 1..Len(Added) :
                      /\ Added[i].qname = last_zone.name
                      /\ Added[i].qtype = "DS"
                            => Some(Added[i].server) = Selected(parent_zone[1])
                      /\ Added[i].qtype = "DNSKEY"
                            => Some(Added[i].server) = Selected(last_zone)
       /\ last_zone' # last_zone
             => \/ pc = "start" /\ pc' = "loop"
                \/ pc = "hop" /\ pc' = "trust"
      ]_vars

\* The second hop resolves its child at the IPv6 address of the zone the first
\* hop resolved at the origin's IPv4 address and found Untrusted.
C11_Witness ==
    /\ pc = "trust" /\ Len(yielded) = 2
    /\ Len(out) = 1 /\ Tag(out[1]) = "Untrusted"
    /\ queries[2] = Query("NS", yielded[1][2], "192.0.2.1", TRUE)
    /\ queries[Len(queries)] = Query("NS", child, "2001:db8::1", TRUE)
    /\ parent_zone[1].name = parent /\ last_zone.name = child

-----------------------------------------------------------------------------
(* More claims about the functions (SpecFn)                                *)

\* The DS query of the call returns an answer of DS records only.
DsQuerySucceeds(a) ==
    a.ds_response.ok /\ AllOfType(a.ds_response.answers, "DS")

\* The error every failed address selection of a trust check gives.
IsNoNsAddressError(r) ==
    r.kind = "Err" /\ r.message = NoNsAddress /\ r.trust = NoTrust

\* C12 as stated: query_trust returns the error "no name server address
\* found" exactly when no address can be selected from the parent or from
\* the child.
C12_ErrorIffNoAddress ==
    Returned("query_trust") =>
        (IsNoNsAddressError(ret)
            <=> (\/ ~Selectable(arg.pzone, arg.af_mode)
                 \/ ~Selectable(arg.czone, arg.af_mode)))

\* C12, amended: query_trust returns an error only when no address can be
\* selected from the parent or from the child, and the error is "no name
\* server address found", never a verdict. The parent is checked first: with
\* no address in the parent the error is returned and no query is issued;
\* with an address in the parent and none in the child, the DS query alone is
\* issued, and the error is returned if that query succeeds, while a DS
\* query that fails aborts the call without a result. An empty DS answer, with
\* both queries succeeding, gives Untrusted and not an error.
C12_ErrorOnlyForNoAddress ==
    Returned("query_trust") =>
        LET sel_p == Selectable(arg.pzone, arg.af_mode)
            sel_c == Selectable(arg.czone, arg.af_mode)
            ds_query == Query("DS", arg.czone.name,
                              random_address(arg.pzone.nameservers, arg.af_mode)[1],
                              arg.ds_response.ok)
        IN  /\ ret.kind = "Err" => IsNoNsAddressError(ret) /\ (~sel_p \/ ~sel_c)
            /\ ret.kind = "Ok" => sel_p /\ sel_c
            /\ ~sel_p => IsNoNsAddressError(ret) /\ ret.queries = <<>>
            /\ (sel_p /\ ~sel_c)
                  => /\ ret.queries = <<ds_query>>
                     /\ IF DsQuerySucceeds(arg) THEN IsNoNsAddressError(ret)
                        ELSE ret.kind = "Panic"
            /\ (sel_p /\ sel_c /\ QueriesSucceed(arg)
                   /\ arg.ds_response.answers = <<>>)
                  => /\ ret.kind = "Ok"
                     /\ ret.trust = [trust |-> "Untrusted", reason |-> "missing DS"]
                     /\ Len(ret.queries) = 2

\* The parent has an IPv4 address, the child no address: the DS query is
\* issued, not the DNSKEY query, and the error is returned.
C12_Witness ==
    /\ Returned("query_trust")
    /\ arg.af_mode = "Ipv4"
    /\ arg.pzone.nameservers = <<Nameserver(Ns1, <<"192.0.2.1">>)>>
    /\ arg.czone.nameservers = <<Nameserver(Ns1, <<>>)>>
    /\ ret.queries = <<Query("DS", arg.czone.name, "192.0.2.1", TRUE)>>
    /\ IsNoNsAddressError(ret)

-----------------------------------------------------------------------------
(* More claims about the walk (Spec)                                       *)

\* The walk has made the trust check of the current hop, which returned or
\* was aborted.
TrustCheckMade ==
    \/ pc = "loop" /\ result # None
    \/ pc = "panic" /\ parent_zone # None /\ queries[Len(queries)].qtype # "NS"

\* C13: the DS query of a trust check goes to the address selected from the
\* parent zone and the DNSKEY query to the address selected from the child
\* zone, both asking for the child zone's name. In the walk every DS query
\* directly follows the NS query of its hop, with the same name and the same
\* server address, and every DNSKEY query directly follows a DS query that
\* succeeded, with the same name. The verdict depends on the records of the
\* answer sections alone.
C13_TrustQueries ==
    /\ \A i \in 1..Len(queries) :
          /\ queries[i].qtype = "DS"
                => /\ i > 1 /\ queries[i - 1].qtype = "NS" /\ queries[i - 1].ok
                   /\ queries[i].qname = queries[i - 1].qname
                   /\ queries[i].server = queries[i - 1].server
          /\ queries[i].qtype = "DNSKEY"
                => /\ i > 1 /\ queries[i - 1].qtype = "DS" /\ queries[i - 1].ok
                   /\ queries[i].qname = queries[i - 1].qname
    /\ TrustCheckMade =>
          \A i \in 1..Len(queries) :
             (\A j \in (i + 1)..Len(queries) : queries[j].qtype # "NS") =>
                /\ queries[i].qtype = "DS"
                      => /\ Some(queries[i].server) = Selected(parent_zone[1])
                         /\ queries[i].qname = last_zone.name
                         /\ queries[i].qname = child
                /\ queries[i].qtype = "DNSKEY"
                      => /\ Some(queries[i].server) = Selected(last_zone)
                         /\ queries[i].qname = last_zone.name
    /\ (pc = "loop" /\ responses # None)
          => /\ result # None /\ result[1].kind = "Ok"
             /\ result[1].trust.trust = "Trusted"
                   <=> MatchingPair(responses[1].ds.answers,
                                    responses[1].dnskey.answers)

\* The DS response of the hop has a DS record matching a DNSKEY of the child
\* in its authority and additional sections and none in its answer section:
\* the verdict is Untrusted. The DS query went to the server of the NS query.
C13_Witness ==
    /\ pc = "loop" /\ responses # None
    /\ responses[1].ds.answers = <<>>
    /\ MatchingPair(responses[1].ds.name_servers, responses[1].dnskey.answers)
    /\ result[1].trust.trust = "Untrusted"
    /\ Len(queries) = 4
    /\ queries[2] = Query("NS", child, "192.0.2.1", TRUE)
    /\ queries[3] = Query("DS", child, "192.0.2.1", TRUE)
    /\ queries[4] = Query("DNSKEY", child, "2001:db8::1", TRUE)

\* The k-th pair of the walk's iterator.
PairAt(k) ==
    <<trim_to(args.zone, Len(args.origin) + k - 1),
      trim_to(args.zone, Len(args.origin) + k)>>

\* The walk has stopped: it has ended normally or a query has aborted it.
Stopped == pc \in {"done", "panic"}

\* The hops are those of the iterator, in its order, never more than
\* labels(target) - labels(origin); a walk that has ended normally has made
\* them all, the last one with the target as child.
HopsInIteratorOrder ==
    /\ Len(yielded) <= Steps
    /\ \A k \in 1..Len(yielded) : yielded[k] = PairAt(k)
    /\ pc = "done"
          => /\ Len(yielded) = Steps /\ Len(out) = Steps
             /\ Steps >= 1 => yielded[Steps][2] = args.zone

\* One hop at a time: a hop starts when the line of the hop before it is
\* written; a query of a hop asks for the hop's child and comes before the
\* hop's line; the line of a hop ends the hop.
OneHopAtATime ==
    /\ yielded' # yielded
          => /\ pc = "loop" /\ Len(out) = Len(yielded)
             /\ yielded' = Append(yielded, PairAt(Len(yielded) + 1))
             /\ Added = <<>> /\ out' = out
    /\ (Added # <<>> /\ pc # "start")
          => /\ Len(yielded) >= 1 /\ Len(out) = Len(yielded) - 1
             /\ yielded' = yielded
             /\ \A i \in 1..Len(Added) : Added[i].qname = yielded[Len(yielded)][2]
    /\ out' # out
          => /\ Len(out') = Len(yielded) /\ Len(out) = Len(yielded) - 1
             /\ yielded' = yielded
             /\ out'[Len(out')].text[6] = yielded[Len(yielded)][2]
             /\ pc' = "loop"

C15_NoAddressHopFrame ==
    /\ [][(pc = "hop" /\ ~Selectable(last_zone, args.ip_family_mode))
             => /\ Added = <<>>
                /\ Len(out') = Len(out) + 1
                /\ SubSeq(out', 1, Len(out)) = out
                /\ IsLine(out'[Len(out')], "stderr", "Error", parent, child,
                          NoUsable)
                /\ last_zone' = last_zone
                /\ parent_zone' = None /\ result' = None
                /\ pc' = "loop"]_vars
    /\ []((pc = "loop" /\ result = None /\ Len(out) >= 1)
             => /\ ~Selectable(last_zone, args.ip_family_mode)
                /\ last_zone.name # child
                /\ \A i \in 1..Len(queries) : queries[i].qname # child)

\* The second hop found no address in the zone the first hop resolved: the
\* walk has issued the origin's query and the NS and DS queries of the first
\* hop only, and the last known zone is still the child of the first hop.
C15_Witness ==
    /\ pc = "loop" /\ result = None /\ Len(out) = 2
    /\ IsLine(out[1], "stderr", "Error", yielded[1][1], yielded[1][2], NoNsAddress)
    /\ IsLine(out[2], "stderr", "Error", parent, child, NoUsable)
    /\ Len(queries) = 3 /\ queries[3].qtype = "DS"
    /\ last_zone.name = yielded[1][2]

\* The current hop is over: the walk is back at the loop head, or aborted.
HopOver == Len(yielded) >= 1 /\ pc \in {"loop", "panic"}

\* The current hop has written its line, an error with this reason.
Reports(reason) ==
    /\ Len(out) = Len(yielded)
    /\ IsLine(out[Len(out)], "stderr", "Error", parent, child, reason)

\* The current hop has resolved its child.
ChildResolved == parent_zone # None /\ last_zone.name = child

\* The last known zone had an address when the hop started, the child it
\* resolved has none.
ParentOnlySelectable ==
    /\ ChildResolved
    /\ Selectable(parent_zone[1], args.ip_family_mode)
    /\ ~Selectable(last_zone, args.ip_family_mode)

\* C16 as stated: a hop reports "no name server address found" exactly when
\* the last known zone has a selectable address and the newly resolved child
\* has none.
C16_NoNsAddressIffParentOnly ==
    HopOver => (Reports(NoNsAddress) <=> ParentOnlySelectable)

\* C16, amended: query_trust is called only with a parent zone that has a
\* selectable address, so that query_ds always finds one and a trust check
\* that returns an error has issued its DS query. A hop reports "no name
\* server address found" only when the last known zone has a selectable
\* address and the newly resolved child has none, and in that case it
\* reports it unless its DS query aborts the walk; a hop reports "no usable
\* address found for nameserver" exactly when the last known zone has no
\* selectable address; no hop reports both.
C16_ErrorReasons ==
    /\ pc = "trust"
          => /\ parent_zone # None
             /\ Selectable(parent_zone[1], args.ip_family_mode)
             /\ \A ds_response \in WalkDsResponses :
                   query_ds(parent_zone[1], last_zone.name, args.ip_family_mode,
                            ds_response).kind # "Err"
    /\ (pc = "loop" /\ result # None /\ result[1].kind = "Err")
          => /\ queries[Len(queries)] = Query("DS", child,
                                              Selected(parent_zone[1])[1], TRUE)
             /\ Reports(NoNsAddress)
    /\ HopOver
          => /\ Reports(NoNsAddress) => ParentOnlySelectable
             /\ ParentOnlySelectable
                   => \/ Reports(NoNsAddress)
                      \/ /\ pc = "panic" /\ Len(out) = Len(yielded) - 1
                         /\ queries[Len(queries)].qtype = "DS"
             /\ Reports(NoUsable)
                   <=> (/\ pc = "loop" /\ parent_zone = None
                        /\ ~Selectable(last_zone, args.ip_family_mode))
             /\ ~(Reports(NoNsAddress) /\ Reports(NoUsable))
    /\ (pc = "hop" /\ ~Selectable(last_zone, args.ip_family_mode))
          => ~ENABLED HopQueryZone
    /\ (pc = "hop" /\ Selectable(last_zone, args.ip_family_mode))
          => ~ENABLED HopNoAddress

\* IPv4 only: the origin has an IPv4 address, the child of the first hop an
\* IPv6 address only. The hop reports "no name server address found".
C16_Witness ==
    /\ pc = "loop" /\ args.ip_family_mode = "Ipv4" /\ Len(yielded) = 1
    /\ Reports(NoNsAddress)
    /\ parent_zone[1].nameservers = <<Nameserver(Ns1, <<"192.0.2.1">>)>>
    /\ last_zone.nameservers = <<Nameserver(Ns1, <<"2001:db8::1">>)>>
    /\ Len(queries) = 3

\* C17: when the origin is a label-suffix of the target, at every hop that
\* resolves its child and makes the trust check, the zone passed as parent
\* has the parent name the iterator yielded for the hop and the zone passed
\* as child has the child name: a verdict line names the zones that were
\* checked. This holds after Trusted and Untrusted hops alike; after a hop
\* that reported an error no later hop resolves its child.
C17_CheckedZonesAreTheYieldedPair ==
    (/\ IsLabelSuffix(args.origin, args.zone)
     /\ pc = "trust" \/ (pc = "loop" /\ result # None))
    => /\ parent_zone # None
       /\ parent_zone[1].name = parent /\ last_zone.name = child
       /\ <<parent_zone[1].name, last_zone.name>> = yielded[Len(yielded)]
       /\ pc = "trust" => \A i \in 1..Len(out) : Tag(out[i]) # "Error"
       /\ (pc = "loop" /\ result[1].kind = "Ok")
             => /\ out[Len(out)].text[4] = parent_zone[1].name
                /\ out[Len(out)].text[6] = last_zone.name

\* Origin a., target b.b.a.: the second hop, after an Untrusted first hop,
\* has resolved b.b.a. and checks it against b.a.
C17_Witness ==
    /\ args.origin = <<"a">> /\ args.zone = <<"b", "b", "a">>
    /\ pc = "trust" /\ Len(yielded) = 2
    /\ Len(out) = 1 /\ Tag(out[1]) = "Untrusted"
    /\ parent_zone[1].name = <<"b", "a">>
    /\ last_zone.name = <<"b", "b", "a">>

-----------------------------------------------------------------------------
(* The iterator instance (SpecFn)                                          *)

Max(a, b) == IF a >= b THEN a ELSE b

\* C18: the iterator only moves forward. current_level starts at
\* labels(origin); a call of next() that yields a pair adds exactly 1 to it,
\* a call that returns None leaves it as it is; it never exceeds
\* max(labels(origin), labels(target)), which is below 2^8, so the counter
\* never wraps; after a None every later call returns None. The target of the
\* instance never changes.
C18_IteratorOnlyMovesForward ==
    /\ [](fn = "iter"
            => /\ ret.items = <<>> => ret.self.current_level = Len(arg.origin)
               /\ ret.self.current_level
                     = Len(arg.origin) + Len(PairsOf(ret.items))
               /\ ret.self.current_level <= Max(Len(arg.origin), Len(arg.name))
               /\ ret.self.current_level < U8
               /\ ret.self.target = arg.name
               /\ \A k \in 1..Len(ret.items) : \A l \in k..Len(ret.items) :
                     ret.items[k] = None => ret.items[l] = None)
    /\ [][fn = "iter"
            => /\ Len(ret'.items) = Len(ret.items) + 1
               /\ SubSeq(ret'.items, 1, Len(ret.items)) = ret.items
               /\ IF ret'.items[Len(ret'.items)] = None
                  THEN ret'.self.current_level = ret.self.current_level
                  ELSE /\ ret'.self.current_level = ret.self.current_level + 1
                       /\ ret.self.current_level + 1 < U8
               /\ ret'.self.current_level >= ret.self.current_level]_vars

\* Origin of one label, target of two: one pair, then None twice, and the
\* counter at 2.
C18_Witness ==
    /\ Returned("iter")
    /\ Len(arg.origin) = 1 /\ Len(arg.name) = 2
    /\ Len(ret.items) = 3
    /\ ret.items[1] # None /\ ret.items[2] = None /\ ret.items[3] = None
    /\ ret.self.current_level = 2

====
